---------------------------- MODULE Spec2Model ----------------------------
(***************************************************************************)
(* State-machine model of the PR dashboard in src/data_visualizer/scripts: *)
(* the record store and loader (dataLoader.js), the analysis pipeline      *)
(* (dataAnalyzer.js), the list renderer (prList.js) and the diff line      *)
(* formatter (utils.js).                                                   *)
(*                                                                         *)
(* Conventions.                                                            *)
(*  - A JavaScript string is a sequence of one-character strings.          *)
(*  - An optional field is a sequence of length 0 (undefined) or 1.        *)
(*  - A loaded record carries the identity of the object JSON.parse built  *)
(*    for it in the field oid = <<load, file position, position in file>>. *)
(*  - Array indices in cards and in openPRDetail are the 0-based indices   *)
(*    of the code, -1 meaning "not found".                                 *)
(*  - One reader.onload event together with the promise reactions it       *)
(*    triggers (microtasks run before the next event) is one action.       *)
(***************************************************************************)
EXTENDS Integers, Sequences, FiniteSets, TLC

---------------------------------------------------------------------------
(* Bounds of the model *)

\* number of loads the user starts in one behaviour
MaxLoads == 2

\* number of files the user picks for one load
MaxFiles == 2

\* number of filter-input events (text, dates, toggle, repository
\* checkboxes) in one behaviour
MaxInputs == 1

\* length of a day in the model's time unit, the resolution of a timestamp
\* (one unit stands for the millisecond of setHours(23, 59, 59, 999))
DayLen == 4

---------------------------------------------------------------------------
(* Program constants *)

\* setTimeout delay of the error notification, in seconds (3000 ms)
ErrorTimeout == 3

---------------------------------------------------------------------------
(* Optional values and strings *)

None == <<>>

Some(v) == <<v>>

Str2(a, b) == <<a, b>>

Str3(a, b, c) == <<a, b, c>>

\* String.prototype.toLowerCase on one character of the model's alphabet
LowerChar(c) ==
    CASE c = "A" -> "a"
      [] c = "B" -> "b"
      [] c = "X" -> "x"
      [] c = "Y" -> "y"
      [] OTHER -> c

\* String.prototype.toLowerCase
ToLowerCase(s) == [i \in 1..Len(s) |-> LowerChar(s[i])]

\* String.prototype.startsWith
StartsWith(s, p) == Len(s) >= Len(p) /\ SubSeq(s, 1, Len(p)) = p

\* String.prototype.includes
Includes(s, q) ==
    \E i \in 0..(Len(s) - Len(q)) : SubSeq(s, i + 1, i + Len(q)) = q

\* truthiness of an optional string: undefined and '' are falsy
TruthyStr(o) == o # None /\ o[1] # <<>>

\* truthiness of an optional array: any array, even [], is truthy
TruthyArr(o) == o # None

\* x || 0 for an optional number
NumOr0(o) == IF o = None THEN 0 ELSE o[1]

SeqToSet(s) == {s[i] : i \in 1..Len(s)}

\* Array.prototype.flat (depth 1) of an array of arrays
RECURSIVE Flat(_)
Flat(ss) == IF ss = <<>> THEN <<>> ELSE Head(ss) \o Flat(Tail(ss))

RECURSIVE SumSeq(_)
SumSeq(s) == IF s = <<>> THEN 0 ELSE Head(s) + SumSeq(Tail(s))

---------------------------------------------------------------------------
(* Records and the files the user can pick *)

FileChange(filename, changes) ==
    [filename |-> filename, changes |-> changes,
     additions |-> changes, deletions |-> None]

Record(repo, created, statement, ftp, patch) ==
    [repo |-> repo, created_at |-> created, problem_statement |-> statement,
     FAIL_TO_PASS |-> ftp, patch |-> patch]

RepoAB == Str3("a", "/", "b")

RepoXY == Str3("x", "/", "y")

RepoXYUpper == Str3("X", "/", "Y")

\* {repo:'a/b', FAIL_TO_PASS:'t', created_at: day 0, problem_statement:'Ab'}
RecAB ==
    Record(Some(RepoAB), Some(2), Some(Str2("A", "b")), Some(<<"t">>),
           Some(<<FileChange(Some(Str3("s", "/", "f")), Some(11))>>))

\* {repo:'X/Y', created_at: day 1, problem_statement:'b', patch: []}
RecXYUpper ==
    Record(Some(RepoXYUpper), Some(5), Some(<<"b">>), None, Some(<<>>))

\* {repo:'x/y', created_at: day 1, problem_statement:'', FAIL_TO_PASS:''}
RecXY ==
    Record(Some(RepoXY), Some(5), Some(<<>>), Some(<<>>), None)

\* {FAIL_TO_PASS:'t'}: no repo, no date, no statement, no patch
RecBare == Record(None, None, None, Some(<<"t">>), None)

\* {repo:'a/b', patch:[{changes: 1}]}: a file change without filename
RecNoFilename ==
    Record(Some(RepoAB), None, Some(<<"b">>), None,
           Some(<<FileChange(None, Some(1))>>))

\* the content of a file: text that is not JSON, one JSON object, or a
\* JSON array of objects
InvalidJson == [kind |-> "invalid", value |-> <<>>]

JsonObject(r) == [kind |-> "object", value |-> r]

JsonArray(rs) == [kind |-> "array", value |-> rs]

FileCatalog ==
    << JsonObject(RecAB),
       JsonArray(<<RecXYUpper, RecXY>>),
       JsonArray(<<>>),
       InvalidJson,
       JsonArray(<<RecBare, RecBare>>),
       JsonArray(<<RecNoFilename>>) >>

FileIds == 1..Len(FileCatalog)

---------------------------------------------------------------------------
(* Dates *)

\* new Date(pr.created_at): the instant, or None for an Invalid Date
\* (created_at absent)
NewDate(created) == created

\* new Date(value) of a date input's value 'YYYY-MM-DD' (day d): midnight
\* UTC of that day
DateOfInput(d) == d * DayLen

\* date.setHours(0, 0, 0, 0): midnight, local time, of the local day that
\* holds instant t; offset is the local time's offset from UTC
StartOfLocalDay(t, offset) == ((t + offset) \div DayLen) * DayLen - offset

\* date.setHours(23, 59, 59, 999): the last instant of that local day
EndOfLocalDay(t, offset) == StartOfLocalDay(t, offset) + DayLen - 1

\* a < b on two Dates: false when either is an Invalid Date
DateLess(a, b) == a # None /\ b # None /\ a[1] < b[1]

---------------------------------------------------------------------------
(* dataAnalyzer.js: statistics *)

IsFailToPass(pr) == TruthyStr(pr.FAIL_TO_PASS)

FailToPassOf(data) == SelectSeq(data, IsFailToPass)

\* new Set(data.map(pr => pr.repo)).size: undefined is a member like any
\* other value
DistinctRepoCount(data) == Cardinality({data[i].repo : i \in 1..Len(data)})

UpdateStats(data) ==
    [totalPRs |-> Len(data),
     failToPassPRs |-> Len(FailToPassOf(data)),
     totalRepos |-> DistinctRepoCount(data),
     failToPassRepos |-> DistinctRepoCount(FailToPassOf(data))]

ZeroStats ==
    [totalPRs |-> 0, failToPassPRs |-> 0, totalRepos |-> 0,
     failToPassRepos |-> 0]

---------------------------------------------------------------------------
(* Sorting *)

\* a stable sort of s by ascending rank (rank[i] is the key of s[i]): what
\* Array.prototype.sort does under a consistent comparator
StableSortByRank(s, rank) ==
    LET n == Len(s)
        pos(i) == 1 + Cardinality({j \in 1..n :
                        rank[j] < rank[i] \/ (rank[j] = rank[i] /\ j < i)})
    IN [k \in 1..n |-> s[CHOOSE i \in 1..n : pos(i) = k]]

\* every arrangement of the elements of s
PermutationsOf(s) ==
    LET n == Len(s)
    IN {[k \in 1..n |-> s[f[k]]] :
          f \in {g \in [1..n -> 1..n] : \A a, b \in 1..n : a # b => g[a] # g[b]}}

\* the first occurrences of s, in order (the key order of an object filled
\* by s)
RECURSIVE Distinct(_)
Distinct(s) ==
    IF s = <<>> THEN <<>>
    ELSE LET front == Distinct(SubSeq(s, 1, Len(s) - 1))
             last == s[Len(s)]
         IN IF last \in SeqToSet(front) THEN front ELSE Append(front, last)

CountOf(s, v) == Cardinality({i \in 1..Len(s) : s[i] = v})

---------------------------------------------------------------------------
(* dataAnalyzer.js: the four chart builders *)

\* the local time's offsets from UTC the browser may run under
TimeZones == {0 - 1, 1}

\* days of a month in the model's calendar
DaysPerMonth == 2

Unknown == <<"u", "n", "k", "n", "o", "w", "n">>

\* pr.patch?.length || 0
FilesCount(pr) == IF pr.patch = None THEN 0 ELSE Len(pr.patch[1])

\* pr.patch?.reduce((sum, file) => sum + (file.changes || 0), 0) || 0
ChangeCount(pr) ==
    IF pr.patch = None THEN 0
    ELSE SumSeq([i \in 1..Len(pr.patch[1]) |-> NumOr0(pr.patch[1][i].changes)])

\* ranges that shut out their upper limit
FileRangeStrict(count) ==
    IF count < 2 THEN 1 ELSE IF count < 5 THEN 2
    ELSE IF count < 10 THEN 3 ELSE 4

FileRange(count) ==
    IF count <= 2 THEN 1 ELSE IF count <= 5 THEN 2
    ELSE IF count <= 10 THEN 3 ELSE 4

ChangeRange(change) ==
    IF change <= 10 THEN 1 ELSE IF change <= 50 THEN 2
    ELSE IF change <= 100 THEN 3 ELSE 4

\* Object.values(distribution) of createFileDistChart
FileDistribution(data) ==
    [r \in 1..4 |->
       Cardinality({i \in 1..Len(data) : FileRange(FilesCount(data[i])) = r})]

\* Object.values(distribution) of createChangesChart
ChangesDistribution(data) ==
    [r \in 1..4 |->
       Cardinality({i \in 1..Len(data) : ChangeRange(ChangeCount(data[i])) = r})]

\* repo.split('/').pop() || repo
LastSegment(s) ==
    LET slashes == {i \in 1..Len(s) : s[i] = "/"}
        tail == IF slashes = {} THEN s
                ELSE SubSeq(s, 1 + CHOOSE i \in slashes :
                                      \A j \in slashes : j <= i, Len(s))
    IN IF tail = <<>> THEN s ELSE tail

\* labels and counts of createRepoChart
RepoDistribution(data) ==
    LET keys == [i \in 1..Len(data) |->
                   IF TruthyStr(data[i].repo) THEN data[i].repo[1] ELSE Unknown]
        names == Distinct(keys)
        entries == [k \in 1..Len(names) |->
                      [repo |-> names[k], count |-> CountOf(keys, names[k])]]
        sorted == StableSortByRank(entries,
                      [k \in 1..Len(names) |-> 0 - entries[k].count])
    IN [k \in 1..Len(sorted) |->
          [label |-> LastSegment(sorted[k].repo), count |-> sorted[k].count]]

\* the month of an instant in local time: the rank of its 'YYYY-MM' key
MonthOf(t, offset) == (t + offset) \div (DaysPerMonth * DayLen)

\* months and counts of createTimelineChart
Timeline(data, offset) ==
    LET dated == SelectSeq(data, LAMBDA pr : pr.created_at # None)
        keys == [i \in 1..Len(dated) |-> MonthOf(dated[i].created_at[1], offset)]
        months == Distinct(keys)
        entries == [k \in 1..Len(months) |->
                      [month |-> months[k], count |-> CountOf(keys, months[k])]]
    IN StableSortByRank(entries, [k \in 1..Len(months) |-> entries[k].month])

ChartTargets ==
    {"fileDistChart", "changesChart", "repoChart", "timelineChart"}

\* the targets of the two histograms
HistogramTargets == {"fileDistChart", "changesChart"}

\* the data a builder draws for its target
ChartData(target, data, offset) ==
    CASE target = "fileDistChart" -> FileDistribution(data)
      [] target = "changesChart" -> ChangesDistribution(data)
      [] target = "repoChart" -> RepoDistribution(data)
      [] target = "timelineChart" -> Timeline(data, offset)

\* one builder: destroy the chart bound to the canvas (Chart.getChart), then
\* bind a new one; instances is the sequence of charts bound to the target
BuildChart(instances, target, data, offset) ==
    <<ChartData(target, data, offset)>>

\* builders that are given every record of the store
CreateChartsOnAllRecords(charts, data, offset) ==
    [t \in ChartTargets |-> BuildChart(charts[t], t, data, offset)]

\* createCharts: every builder gets the fail-to-pass records of the store
CreateCharts(charts, data, offset) ==
    [t \in ChartTargets |->
       BuildChart(charts[t], t, FailToPassOf(data), offset)]

---------------------------------------------------------------------------
(* dataLoader.js: the filter and the repository dropdown *)

\* UTF-16 code unit of a character of the model's alphabet
CharCode(c) ==
    CASE c = " " -> 32 [] c = "&" -> 38 [] c = "+" -> 43 [] c = "-" -> 45
      [] c = "/" -> 47 [] c = ";" -> 59 [] c = "<" -> 60 [] c = "@" -> 64
      [] c = "A" -> 65 [] c = "B" -> 66 [] c = "X" -> 88 [] c = "Y" -> 89
      [] c = "a" -> 97 [] c = "b" -> 98 [] c = "f" -> 102 [] c = "l" -> 108
      [] c = "s" -> 115 [] c = "t" -> 116 [] c = "x" -> 120 [] c = "y" -> 121
      [] OTHER -> 0

\* a < b on two strings: by code units, a proper prefix first
StrLess(a, b) ==
    \E i \in 1..(Len(b)) :
        /\ i - 1 <= Len(a)
        /\ SubSeq(a, 1, i - 1) = SubSeq(b, 1, i - 1)
        /\ (i > Len(a) \/ CharCode(a[i]) < CharCode(b[i]))

\* Array.from(set).sort() of distinct strings
SortStrings(set) ==
    [k \in 1..Cardinality(set) |->
       CHOOSE r \in set : Cardinality({o \in set : StrLess(o, r)}) = k - 1]

\* populateRepoFilter: one unchecked checkbox per distinct truthy repo, in
\* sorted order, its value the lower-cased repo
PopulateRepoFilter(data) ==
    LET repos == {data[i].repo[1] : i \in {j \in 1..Len(data) :
                                              TruthyStr(data[j].repo)}}
        sortedRepos == SortStrings(repos)
    IN [k \in 1..Len(sortedRepos) |->
          [value |-> ToLowerCase(sortedRepos[k]), label |-> sortedRepos[k],
           checked |-> FALSE]]

\* the values of the checked checkboxes
SelectedRepoValues(dropdown) ==
    {dropdown[k].value : k \in {j \in 1..Len(dropdown) : dropdown[j].checked}}

\* updateSelectedReposDisplay
UpdateSelectedReposDisplay(dropdown) ==
    LET checked == SelectSeq(dropdown, LAMBDA cb : cb.checked)
    IN [count |-> Len(checked),
        name |-> IF Len(checked) = 1 THEN Some(checked[1].label) ELSE None]

\* pr.problem_statement?.toLowerCase().includes(prQuery)
MatchesTitle(pr, prQuery) ==
    /\ pr.problem_statement # None
    /\ Includes(ToLowerCase(pr.problem_statement[1]), prQuery)

\* selectedRepos.length === 0 || selectedRepos.includes(pr.repo?.toLowerCase())
MatchesRepo(pr, selected) ==
    \/ selected = {}
    \/ (pr.repo # None /\ ToLowerCase(pr.repo[1]) \in selected)

\* !failToPassChecked || pr.FAIL_TO_PASS
MatchesFailToPass(pr, failToPassChecked) ==
    ~failToPassChecked \/ IsFailToPass(pr)

MatchesDate(pr, start, end, offset) ==
    /\ (start # None =>
          ~DateLess(NewDate(pr.created_at),
                    Some(StartOfLocalDay(DateOfInput(start[1]), offset))))
    /\ (end # None =>
          ~DateLess(Some(EndOfLocalDay(DateOfInput(end[1]), offset)),
                    NewDate(pr.created_at)))

\* the callback of getPrData().filter in applyFilters
MatchesFilter(pr, query, dropdown, start, end, ftp, offset) ==
    /\ MatchesTitle(pr, ToLowerCase(query))
    /\ MatchesRepo(pr, SelectedRepoValues(dropdown))
    /\ MatchesDate(pr, start, end, offset)
    /\ MatchesFailToPass(pr, ftp)

Filtered(data, query, dropdown, start, end, ftp, offset) ==
    SelectSeq(data,
        LAMBDA pr : MatchesFilter(pr, query, dropdown, start, end, ftp, offset))

---------------------------------------------------------------------------
(* prList.js: the list renderer *)

\* the comparator (a, b) => new Date(b.created_at) - new Date(a.created_at)
\* is consistent unless an Invalid Date (comparing equal to everything)
\* meets two different valid dates
ConsistentComparator(s) ==
    LET dates == {s[i].created_at : i \in 1..Len(s)}
    IN None \notin dates \/ Cardinality(dates \ {None}) <= 1

\* getFilteredPrData().sort(...): the orders the in-place sort may leave.
\* Newest first and stable under a consistent comparator; the order is
\* implementation-defined otherwise.
SortOutcomes(s) ==
    IF ~ConsistentComparator(s) THEN PermutationsOf(s)
    ELSE IF \E i \in 1..Len(s) : s[i].created_at = None THEN {s}
    ELSE {StableSortByRank(s, [i \in 1..Len(s) |-> 0 - s[i].created_at[1]])}

\* getPrData().findIndex(item => item === pr): 0-based, -1 when absent
FindIndex(data, pr) ==
    LET hits == {i \in 1..Len(data) : data[i].oid = pr.oid}
    IN IF hits = {} THEN 0 - 1
       ELSE (CHOOSE i \in hits : \A j \in hits : i <= j) - 1

\* file.filename.split('/') raises a TypeError for a file change without
\* filename among the first three of the patch
CardThrows(pr) ==
    /\ pr.patch # None
    /\ \E k \in 1..Len(pr.patch[1]) : k <= 3 /\ pr.patch[1][k].filename = None

Card(pr, data) == [pr |-> pr, originalIndex |-> FindIndex(data, pr)]

ListThrows(sortedPRs) == \E i \in 1..Len(sortedPRs) : CardThrows(sortedPRs[i])

\* the cards assigned to prList.innerHTML
Cards(sortedPRs, data) ==
    [i \in 1..Len(sortedPRs) |-> Card(sortedPRs[i], data)]

---------------------------------------------------------------------------
(* utils.js: the diff line formatter *)

Newline == "\n"

Nbsp == <<"&", "n", "b", "s", "p", ";">>

\* the characters of a diff text in the model
PatchAlphabet == {"+", "-", "@", " ", "a", "<", Newline}

\* number of characters of a diff text in the model
MaxPatchLen == 3

PatchTexts == UNION {[1..n -> PatchAlphabet] : n \in 0..MaxPatchLen}

Languages == {"plaintext", "python"}

\* escapeHtml: the text as the innerHTML of a text node
RECURSIVE EscapeHtml(_)
EscapeHtml(text) ==
    IF text = <<>> THEN <<>>
    ELSE (IF Head(text) = "<" THEN <<"&", "l", "t", ";">>
          ELSE IF Head(text) = ">" THEN <<"&", "g", "t", ";">>
          ELSE IF Head(text) = "&" THEN <<"&", "a", "m", "p", ";">>
          ELSE <<Head(text)>>) \o EscapeHtml(Tail(text))

\* text.split('\n')
RECURSIVE SplitLines(_)
SplitLines(text) ==
    LET breaks == {i \in 1..Len(text) : text[i] = Newline}
    IN IF breaks = {} THEN <<text>>
       ELSE LET first == CHOOSE i \in breaks : \A j \in breaks : i <= j
            IN <<SubSeq(text, 1, first - 1)>>
                 \o SplitLines(SubSeq(text, first + 1, Len(text)))

\* line.substring(1)
Substring1(line) == SubSeq(line, 2, Len(line))

\* the class and the code of one line, by the if-chain of the loop body
ClassifyLine(line) ==
    IF StartsWith(line, <<"+">>)
    THEN [lineClass |-> "diff-add", codeLine |-> Substring1(line)]
    ELSE IF StartsWith(line, <<"-">>)
    THEN [lineClass |-> "diff-remove", codeLine |-> Substring1(line)]
    ELSE IF \/ StartsWith(line, <<"@", "@">>)
            \/ StartsWith(line, <<"-", "-", "-">>)
            \/ StartsWith(line, <<"+", "+", "+">>)
    THEN [lineClass |-> "diff-meta", codeLine |-> line]
    ELSE [lineClass |-> "",
          codeLine |-> IF StartsWith(line, <<" ">>) THEN Substring1(line)
                       ELSE line]

\* one <span class="diff-line ...">: the text is the code line, highlighted
\* by hljs unless the language is plaintext (the markup hljs adds is not
\* modelled: the span keeps the language), or &nbsp; for an empty line
DiffLine(line, language) ==
    LET c == ClassifyLine(line)
    IN [lineClass |-> c.lineClass, language |-> language,
        text |-> IF c.codeLine = <<>> THEN Nbsp ELSE c.codeLine]

\* formatAndHighlightPatch: the spans, or the message for an empty text
FormatAndHighlightPatch(patchContent, language) ==
    IF patchContent = <<>> THEN [message |-> TRUE, spans |-> <<>>]
    ELSE LET lines == SplitLines(EscapeHtml(patchContent))
         IN [message |-> FALSE,
             spans |-> [k \in 1..Len(lines) |-> DiffLine(lines[k], language)]]

---------------------------------------------------------------------------
(* State *)

VARIABLES
    prData,            \* dataLoader.js: the full dataset
    filteredPrData,    \* dataLoader.js: the filtered view
    prFilter,          \* value of the text input #prFilter
    startDate,         \* value of #startDate: None ('') or Some(day)
    endDate,           \* value of #endDate: None ('') or Some(day)
    failToPassFilter,  \* checked state of #failToPassFilter
    repoDropdown,      \* the checkboxes of #repoDropdown, in document order
    selectedRepos,     \* what #selectedRepos / #repoPlaceholder display
    stats,             \* the four statistics tiles
    charts,            \* per chart target, the chart instances bound to it
    prList,            \* the cards of #prList, in document order
    prCount,           \* the number shown in #pr-count
    loading,           \* #loading has class 'show'
    analysisResults,   \* style.display of #analysisResults
    errorMessages,     \* the error notifications in the body: their ages
    modal,             \* #prModal is displayed
    loads,             \* the loads started so far and their file reads
    tz,                \* the browser's local-time offset from UTC
    inputs,            \* the filter-input events so far (history)
    patchContent,      \* formatAndHighlightPatch: the diff text given
    patchLanguage,     \* formatAndHighlightPatch: the language given
    patchHtml,         \* formatAndHighlightPatch: None, or Some(result)
    chartInput,        \* histogram builders: the records given
    histograms,        \* histogram builders: per target, the charts drawn
    lastEvent          \* the handler that ran last (history)

storeVars == <<prData, filteredPrData>>

inputVars == <<prFilter, startDate, endDate, failToPassFilter>>

viewVars == <<stats, charts, prList, prCount, selectedRepos>>

patchVars == <<patchContent, patchLanguage, patchHtml>>

histVars == <<chartInput, histograms>>

vars ==
    <<prData, filteredPrData, prFilter, startDate, endDate, failToPassFilter,
      repoDropdown, selectedRepos, stats, charts, prList, prCount, loading,
      analysisResults, errorMessages, modal, loads, tz, inputs, patchContent,
      patchLanguage, patchHtml, chartInput, histograms, lastEvent>>

\* values the user types into #prFilter
TextQueries == {<<>>, <<"A">>}

\* days the user picks in the two date inputs
InputDays == {1}

LoadIds == 1..MaxLoads

UnusedLoad ==
    [phase |-> "unused", files |-> <<>>, pending |-> {}, results |-> <<>>,
     settled |-> "no", errors |-> 0]

Event(kind, load, at, files) ==
    [kind |-> kind, load |-> load, at |-> at, files |-> files]

InitDashboard ==
    /\ prData = <<>>
    /\ filteredPrData = <<>>
    /\ prFilter = <<>>
    /\ startDate = None
    /\ endDate = None
    /\ failToPassFilter = FALSE
    /\ repoDropdown = <<>>
    /\ selectedRepos = [count |-> 0, name |-> None]
    /\ stats = ZeroStats
    /\ charts = [t \in ChartTargets |-> <<>>]
    /\ prList = <<>>
    /\ prCount = 0
    /\ loading = FALSE
    /\ analysisResults = "initial"
    /\ errorMessages = <<>>
    /\ modal = FALSE
    /\ loads = [l \in LoadIds |-> UnusedLoad]
    /\ tz \in TimeZones
    /\ inputs = 0
    /\ lastEvent = Event("init", 0, 0, <<>>)

\* no histogram builder has been given anything
HistogramsIdle ==
    /\ chartInput = <<>>
    /\ histograms = [t \in HistogramTargets |-> <<>>]

Init ==
    /\ InitDashboard
    /\ patchContent = <<>>
    /\ patchLanguage = "plaintext"
    /\ patchHtml = None
    /\ HistogramsIdle

---------------------------------------------------------------------------
(* Filter inputs: main.js wires every input to applyFilters *)

\* applyFilters, run with the inputs as the event left them
ApplyFilters(query, dropdown, start, end, ftp) ==
    LET filtered == Filtered(prData, query, dropdown, start, end, ftp, tz)
    IN \E sortedPRs \in SortOutcomes(filtered) :
         /\ ~modal
         /\ inputs < MaxInputs
         /\ inputs' = inputs + 1
         /\ filteredPrData' = sortedPRs
         /\ selectedRepos' = UpdateSelectedReposDisplay(dropdown)
         /\ prCount' = Len(sortedPRs)
         /\ prList' = IF ListThrows(sortedPRs) THEN prList
                      ELSE Cards(sortedPRs, prData)
         /\ lastEvent' = Event(IF ListThrows(sortedPRs) THEN "filterThrew"
                               ELSE "filter", 0, 0, <<>>)
         /\ UNCHANGED <<prData, stats, charts, loading, analysisResults,
                        errorMessages, modal, loads, tz,
                       patchVars, histVars>>

\* the user edits the text filter
InputPrFilter ==
    \E q \in TextQueries :
        /\ q # prFilter
        /\ prFilter' = q
        /\ UNCHANGED <<startDate, endDate, failToPassFilter, repoDropdown>>
        /\ ApplyFilters(q, repoDropdown, startDate, endDate, failToPassFilter)

\* the user picks or clears the start date
ChangeStartDate ==
    \E d \in {None} \cup {Some(x) : x \in InputDays} :
        /\ d # startDate
        /\ startDate' = d
        /\ UNCHANGED <<prFilter, endDate, failToPassFilter, repoDropdown>>
        /\ ApplyFilters(prFilter, repoDropdown, d, endDate, failToPassFilter)

\* the user picks or clears the end date
ChangeEndDate ==
    \E d \in {None} \cup {Some(x) : x \in InputDays} :
        /\ d # endDate
        /\ endDate' = d
        /\ UNCHANGED <<prFilter, startDate, failToPassFilter, repoDropdown>>
        /\ ApplyFilters(prFilter, repoDropdown, startDate, d, failToPassFilter)

\* the user toggles the fail-to-pass checkbox
ChangeFailToPass ==
    /\ failToPassFilter' = ~failToPassFilter
    /\ UNCHANGED <<prFilter, startDate, endDate, repoDropdown>>
    /\ ApplyFilters(prFilter, repoDropdown, startDate, endDate,
                    ~failToPassFilter)

\* the user toggles one checkbox of the repository dropdown
ChangeRepoCheckbox ==
    \E k \in 1..Len(repoDropdown) :
        LET dropdown == [repoDropdown EXCEPT ![k].checked = ~@]
        IN /\ repoDropdown' = dropdown
           /\ UNCHANGED <<prFilter, startDate, endDate, failToPassFilter>>
           /\ ApplyFilters(prFilter, dropdown, startDate, endDate,
                           failToPassFilter)

---------------------------------------------------------------------------
(* dataLoader.js: loadFiles *)

(* A load holds the number of its files; what a file holds is the          *)
(* environment's choice, seen by the program when the file's reader fires, *)
(* and is drawn there. files[i] is the catalog entry read at position i    *)
(* (0 while unread); results[i] is what Promise.all holds for position i.  *)

\* Array.isArray(data) ? data : [data]
AsArray(content) ==
    IF content.kind = "array" THEN content.value ELSE <<content.value>>

\* JSON.parse of file i of load l, then resolve(AsArray(data)): fresh
\* objects, one per record of the file
ParsedRecords(l, i, content) ==
    LET items == AsArray(content)
    IN [k \in 1..Len(items) |-> [oid |-> <<l, i, k>>] @@ items[k]]

\* a loader that collects the values as the reads complete
StoreResultInCompletionOrder(results, i, value) ==
    LET free == {j \in 1..Len(results) : results[j] = None}
    IN [results EXCEPT ![CHOOSE j \in free : \A k \in free : j <= k] =
           Some(value)]

\* Promise.all keeps each file's value at the file's position
StoreResult(results, i, value) == [results EXCEPT ![i] = Some(value)]

\* Promise.all fulfils once every file's promise has resolved
AllResolved(results) == \A i \in 1..Len(results) : results[i] # None

\* the values Promise.all fulfils with
ResultValues(results) == [i \in 1..Len(results) |-> results[i][1]]

\* a joined promise that could be settled again
JoinedPendingAlways(load) == TRUE

\* a promise settles once: the joined promise of the load takes a
\* rejection or the fulfilment only while it is pending
JoinedPending(load) == load.settled = "no"

\* the load's record once its last reader has fired
FinishedLoad(errors) ==
    [phase |-> "finished", files |-> <<>>, pending |-> {}, results |-> <<>>,
     settled |-> "yes", errors |-> errors]

\* the load after the onload of file i: next is the load with that event's
\* effects on the joined promise
AfterRead(next, i) ==
    IF next.pending = {i} THEN FinishedLoad(next.errors)
    ELSE [next EXCEPT !.pending = @ \ {i}]

\* the change event of the file input: loadFiles(event.target.files) with
\* n files (loadFiles returns at once for an empty list)
LoadFiles ==
    \E l \in LoadIds, n \in 1..MaxFiles :
        /\ ~modal
        /\ loads[l].phase = "unused"
        /\ \A m \in LoadIds : m < l => loads[m].phase # "unused"
        /\ loads' = [loads EXCEPT ![l] =
                        [phase |-> "reading", files |-> [i \in 1..n |-> 0],
                         pending |-> 1..n,
                         results |-> [i \in 1..n |-> None],
                         settled |-> "no", errors |-> 0]]
        /\ loading' = TRUE
        /\ analysisResults' = "none"
        /\ lastEvent' = Event("loadFiles", l, 0, <<>>)
        /\ UNCHANGED <<storeVars, inputVars, viewVars, repoDropdown,
                       errorMessages, modal, tz, inputs,
                       patchVars, histVars>>

\* the catch handler: one notification, its removal timer, loading hidden
CatchHandler ==
    /\ errorMessages' = Append(errorMessages, 0)
    /\ loading' = FALSE

\* reader.onload of a file that is not JSON, before the joined promise is
\* settled: reject(error) rejects the joined promise and the catch handler
\* runs. What Promise.all holds of the load is out of the program's reach
\* from then on and is dropped.
ReadRejects ==
    \E l \in LoadIds : \E i \in loads[l].pending : \E f \in FileIds :
        LET files == [loads[l].files EXCEPT ![i] = f]
        IN /\ FileCatalog[f].kind = "invalid"
           /\ JoinedPending(loads[l])
           /\ CatchHandler
           /\ loads' = [loads EXCEPT ![l] =
                  AfterRead([@ EXCEPT !.files = files,
                                      !.results = [j \in DOMAIN @ |-> None],
                                      !.settled = "yes", !.errors = @ + 1], i)]
           /\ lastEvent' = Event("rejected", l, i, files)
           /\ UNCHANGED <<storeVars, inputVars, viewVars, repoDropdown,
                          analysisResults, modal, tz, inputs,
                       patchVars, histVars>>

\* reader.onload of a JSON file while other files of the load are unread:
\* the value is stored at its position and no handler runs
ReadResolves ==
    \E l \in LoadIds : \E i \in loads[l].pending : \E f \in FileIds :
        /\ FileCatalog[f].kind # "invalid"
        /\ JoinedPending(loads[l])
        /\ loads[l].pending # {i}
        /\ loads' = [loads EXCEPT ![l] =
               AfterRead([@ EXCEPT !.files[i] = f,
                                   !.results = StoreResult(@, i,
                                       ParsedRecords(l, i, FileCatalog[f]))], i)]
        /\ lastEvent' = Event("resolved", 0, 0, <<>>)
        /\ UNCHANGED <<storeVars, inputVars, viewVars, repoDropdown, loading,
                       analysisResults, errorMessages, modal, tz, inputs,
                       patchVars, histVars>>

\* reader.onload of a file of a load whose joined promise is rejected
\* already: its resolve or reject reaches no handler, whatever it holds
ReadIgnored ==
    \E l \in LoadIds : \E i \in loads[l].pending :
        /\ ~JoinedPending(loads[l])
        /\ loads' = [loads EXCEPT ![l] = AfterRead(@, i)]
        /\ lastEvent' = Event("ignored", 0, 0, <<>>)
        /\ UNCHANGED <<storeVars, inputVars, viewVars, repoDropdown, loading,
                       analysisResults, errorMessages, modal, tz, inputs,
                       patchVars, histVars>>

\* reader.onload of the last unread file of a load whose files all parsed:
\* the joined promise fulfils and the then handler runs: the store is
\* replaced, analyzeData runs, and an exception of analyzeData runs the
\* catch handler
ReadFulfils ==
    \E l \in LoadIds : \E i \in loads[l].pending : \E f \in FileIds :
        /\ FileCatalog[f].kind # "invalid"
        /\ loads[l].pending = {i}
        /\ JoinedPending(loads[l])
        /\ AllResolved(StoreResult(loads[l].results, i, <<>>))
        /\ LET files == [loads[l].files EXCEPT ![i] = f]
               results == StoreResult(loads[l].results, i,
                              ParsedRecords(l, i, FileCatalog[f]))
               data == Flat(ResultValues(results))
           IN /\ prData' = data
              /\ \E sortedPRs \in (IF data = <<>> THEN {data}
                                   ELSE SortOutcomes(data)) :
                   LET threw == data # <<>> /\ ListThrows(sortedPRs)
                   IN /\ filteredPrData' = sortedPRs
                      /\ IF data = <<>>
                         THEN UNCHANGED <<stats, charts, repoDropdown,
                                          prCount, prList>>
                         ELSE /\ stats' = UpdateStats(data)
                              /\ charts' = CreateCharts(charts, data, tz)
                              /\ repoDropdown' = PopulateRepoFilter(data)
                              /\ prCount' = Len(sortedPRs)
                              /\ prList' = IF threw THEN prList
                                           ELSE Cards(sortedPRs, data)
                      /\ IF threw
                         THEN /\ CatchHandler
                              /\ UNCHANGED analysisResults
                         ELSE /\ loading' = FALSE
                              /\ analysisResults' = "block"
                              /\ UNCHANGED errorMessages
                      /\ loads' = [loads EXCEPT ![l] =
                             FinishedLoad(IF threw THEN 1 ELSE 0)]
                      /\ lastEvent' = Event(IF threw THEN "threw"
                                            ELSE "fulfilled", l, i, files)
              /\ UNCHANGED <<inputVars, selectedRepos, modal, tz, inputs,
                       patchVars, histVars>>

---------------------------------------------------------------------------
(* The error notification's timer *)

\* a second passes; a timer that is due fires before any later instant
Tick ==
    /\ errorMessages # <<>>
    /\ \A k \in 1..Len(errorMessages) : errorMessages[k] < ErrorTimeout
    /\ errorMessages' = [k \in 1..Len(errorMessages) |-> errorMessages[k] + 1]
    /\ lastEvent' = Event("tick", 0, 0, <<>>)
    /\ UNCHANGED <<storeVars, inputVars, viewVars, repoDropdown, loading,
                   analysisResults, modal, loads, tz, inputs,
                       patchVars, histVars>>

\* setTimeout(() => document.body.removeChild(errorMessage), 3000)
RemoveErrorMessage ==
    /\ errorMessages # <<>>
    /\ Head(errorMessages) >= ErrorTimeout
    /\ errorMessages' = Tail(errorMessages)
    /\ lastEvent' = Event("removed", 0, 0, <<>>)
    /\ UNCHANGED <<storeVars, inputVars, viewVars, repoDropdown, loading,
                   analysisResults, modal, loads, tz, inputs,
                       patchVars, histVars>>

---------------------------------------------------------------------------
(* dataLoader.js: the modal *)

\* the user clicks card k: openPRDetail(originalIndex). getPrData()[index]
\* is undefined for an index outside the dataset, and pr.number then raises
\* a TypeError before the modal is touched. The record rendered into the
\* modal is kept in the event. While the modal is displayed it covers the
\* page: a click lands on it (main.js closes it on a backdrop click).
OpenPRDetail ==
    \E k \in 1..Len(prList) :
        LET index == prList[k].originalIndex
            found == index >= 0 /\ index < Len(prData)
        IN /\ ~modal
           /\ modal' = found
           /\ lastEvent' = IF found
                           THEN Event("opened", 0, k, <<prData[index + 1]>>)
                           ELSE Event("openThrew", 0, k, <<>>)
           /\ UNCHANGED <<storeVars, inputVars, viewVars, repoDropdown,
                          loading, analysisResults, errorMessages, loads, tz,
                          inputs,
                       patchVars, histVars>>

\* closePRModal, or a click on the modal's backdrop (main.js)
ClosePRModal ==
    /\ modal
    /\ modal' = FALSE
    /\ lastEvent' = Event("closed", 0, 0, <<>>)
    /\ UNCHANGED <<storeVars, inputVars, viewVars, repoDropdown, loading,
                   analysisResults, errorMessages, loads, tz, inputs,
                       patchVars, histVars>>

---------------------------------------------------------------------------
(* Specification *)

Next ==
    \/ LoadFiles
    \/ ReadRejects
    \/ ReadResolves
    \/ ReadIgnored
    \/ ReadFulfils
    \/ InputPrFilter
    \/ ChangeStartDate
    \/ ChangeEndDate
    \/ ChangeFailToPass
    \/ ChangeRepoCheckbox
    \/ Tick
    \/ RemoveErrorMessage
    \/ OpenPRDetail
    \/ ClosePRModal

Spec == Init /\ [][Next]_vars

---------------------------------------------------------------------------
(* The diff line formatter on its own: every diff text and language of the *)
(* model is formatted once                                                 *)

InitPatch ==
    /\ InitDashboard
    /\ patchContent \in PatchTexts
    /\ patchLanguage \in Languages
    /\ patchHtml = None
    /\ HistogramsIdle

FormatPatch ==
    /\ patchHtml = None
    /\ patchHtml' = Some(FormatAndHighlightPatch(patchContent, patchLanguage))
    /\ UNCHANGED <<storeVars, inputVars, viewVars, repoDropdown, loading,
                   analysisResults, errorMessages, modal, loads, tz, inputs,
                   lastEvent, patchContent, patchLanguage, histVars>>

NextPatch == FormatPatch

SpecPatch == InitPatch /\ [][NextPatch]_vars

---------------------------------------------------------------------------
(* The two histogram builders on their own: each is given every sequence   *)
(* of records of the model once                                            *)

\* number of records given to a histogram builder
MaxHistLen == 2

\* patch lengths on both sides of the limits of the file-count ranges
HistFileCounts == {0, 1, 2, 3, 5, 6, 10, 11}

\* file.changes, absent or on both sides of the limits of the change ranges
HistChanges ==
    {None, Some(10), Some(11), Some(50), Some(51), Some(100), Some(101)}

\* pr.patch: absent, or an array of file changes
HistPatches ==
    {None} \cup
    {Some([i \in 1..n |-> FileChange(Some(<<"f">>), c)]) :
        n \in HistFileCounts, c \in HistChanges}

HistRecords ==
    {Record(None, None, None, Some(<<"t">>), p) : p \in HistPatches}

HistInputs == UNION {[1..n -> HistRecords] : n \in 0..MaxHistLen}

InitHistogram ==
    /\ InitDashboard
    /\ patchContent = <<>>
    /\ patchLanguage = "plaintext"
    /\ patchHtml = None
    /\ chartInput \in HistInputs
    /\ histograms = [t \in HistogramTargets |-> <<>>]

\* createFileDistChart(chartInput) or createChangesChart(chartInput)
CreateHistogram ==
    \E t \in HistogramTargets :
        /\ histograms[t] = <<>>
        /\ histograms' = [histograms EXCEPT
                             ![t] = BuildChart(@, t, chartInput, tz)]
        /\ UNCHANGED <<storeVars, inputVars, viewVars, repoDropdown, loading,
                       analysisResults, errorMessages, modal, loads, tz,
                       inputs, lastEvent, patchVars, chartInput>>

NextHistogram == CreateHistogram

SpecHistogram == InitHistogram /\ [][NextHistogram]_vars

---------------------------------------------------------------------------
(* Claims *)

\* the filter condition as the specification words it, on the current
\* inputs: the text clause holds for every record when the query is empty.
\* The day bounds are the instants applyFilters computes, and a record
\* without created_at passes both date clauses.
ClaimedPredicate(pr) ==
    /\ \/ prFilter = <<>>
       \/ /\ pr.problem_statement # None
          /\ Includes(ToLowerCase(pr.problem_statement[1]),
                      ToLowerCase(prFilter))
    /\ \/ SelectedRepoValues(repoDropdown) = {}
       \/ /\ pr.repo # None
          /\ ToLowerCase(pr.repo[1]) \in SelectedRepoValues(repoDropdown)
    /\ \/ startDate = None
       \/ pr.created_at = None
       \/ pr.created_at[1] >= StartOfLocalDay(DateOfInput(startDate[1]), tz)
    /\ \/ endDate = None
       \/ pr.created_at = None
       \/ pr.created_at[1] <= EndOfLocalDay(DateOfInput(endDate[1]), tz)
    /\ (failToPassFilter => TruthyStr(pr.FAIL_TO_PASS))

\* C1: once applyFilters has run, the filtered view holds exactly the
\* records of the full dataset that satisfy all five clauses of the filter
\* condition, an empty text query excluding no record
C1_AppliedFilterKeepsClaimedRecords ==
    lastEvent.kind \in {"filter", "filterThrew"} =>
        /\ SeqToSet(filteredPrData) =
               {prData[i] : i \in {j \in 1..Len(prData) :
                                      ClaimedPredicate(prData[j])}}
        /\ Len(filteredPrData) =
               Cardinality({j \in 1..Len(prData) : ClaimedPredicate(prData[j])})

\* C2: in every reachable state every record of the filtered view is in the
\* full dataset and satisfies the filter condition of the current inputs
C2_FilteredViewUnderCurrentPredicate ==
    \A i \in 1..Len(filteredPrData) :
        /\ filteredPrData[i] \in SeqToSet(prData)
        /\ ClaimedPredicate(filteredPrData[i])

\* a file of the list has been read and is not JSON
HasInvalid(files) ==
    \E i \in 1..Len(files) :
        files[i] # 0 /\ FileCatalog[files[i]].kind = "invalid"

\* a file of the list has been read and holds at least one record
HasParsedRecords(files) ==
    \E i \in 1..Len(files) :
        /\ files[i] # 0
        /\ FileCatalog[files[i]].kind # "invalid"
        /\ AsArray(FileCatalog[files[i]]) # <<>>

\* what one event of load l may do: only the fulfilment of the load
\* changes the store, a load with a file that is not JSON never fulfils,
\* its rejection shows the load's one notification and no later event of
\* the load shows another
RejectedLoadStep(l) ==
    LET before == loads[l]
        after == loads'[l]
        rejectsNow == lastEvent'.kind = "rejected" /\ lastEvent'.load = l
        fulfilsNow == /\ lastEvent'.kind \in {"fulfilled", "threw"}
                      /\ lastEvent'.load = l
        rejected == HasInvalid(before.files) \/ rejectsNow
    IN before # after =>
          /\ rejected => ~fulfilsNow
          /\ ~fulfilsNow => /\ prData' = prData
                            /\ filteredPrData' = filteredPrData
          /\ rejectsNow => /\ errorMessages' = Append(errorMessages, 0)
                           /\ after.errors = 1
          /\ (rejected /\ ~rejectsNow) => /\ errorMessages' = errorMessages
                                          /\ after.errors = before.errors
          /\ (rejected /\ after.phase = "finished") => after.errors = 1

\* a notification leaves the page only when its 3 seconds are over, and
\* none stays longer
NotificationStep ==
    /\ \A k \in 1..Len(errorMessages') : errorMessages'[k] <= ErrorTimeout
    /\ Len(errorMessages') < Len(errorMessages) =>
          /\ Head(errorMessages) = ErrorTimeout
          /\ errorMessages' = Tail(errorMessages)

\* C3: a load with a file that is not JSON commits nothing: no event of the
\* load changes the full dataset or the filtered view, the load shows
\* exactly one error notification, and a notification is removed 3 seconds
\* after it appeared
C3_RejectedLoadCommitsNothing ==
    [][(\A l \in LoadIds : RejectedLoadStep(l)) /\ NotificationStep]_vars

\* a load was just rejected for a file that is not JSON after another of
\* its files had parsed, a dataset being on display
C3_Witness ==
    /\ lastEvent.kind = "rejected"
    /\ HasInvalid(lastEvent.files)
    /\ HasParsedRecords(lastEvent.files)
    /\ prData # <<>>
    /\ errorMessages # <<>>

\* the records of file f read at position i of load l
FileRecords(l, i, f) ==
    LET content == FileCatalog[f]
    IN IF content.kind = "object"
       THEN <<[oid |-> <<l, i, 1>>] @@ content.value>>
       ELSE [k \in 1..Len(content.value) |->
               [oid |-> <<l, i, k>>] @@ content.value[k]]

\* the records of the first n files of the list, in file order
RECURSIVE ConcatFiles(_, _, _)
ConcatFiles(l, files, n) ==
    IF n = 0 THEN <<>>
    ELSE ConcatFiles(l, files, n - 1) \o FileRecords(l, n, files[n])

\* C4: when all files of a load parsed, the full dataset is the
\* concatenation of the files' records in file order, whatever the order
\* the reads completed in, and holds nothing of an earlier load
C4_DatasetIsConcatenationInFileOrder ==
    lastEvent.kind \in {"fulfilled", "threw"} =>
        prData = ConcatFiles(lastEvent.load, lastEvent.files,
                             Len(lastEvent.files))

\* the second load fulfilled, its second file read before its first, one
\* file holding a single object and the other an array of records, after a
\* first load that had fulfilled
C4_Witness ==
    /\ lastEvent.kind = "fulfilled"
    /\ lastEvent.load = 2
    /\ loads[1].phase = "finished"
    /\ loads[1].errors = 0
    /\ Len(lastEvent.files) = 2
    /\ lastEvent.at = 1
    /\ FileCatalog[lastEvent.files[1]].kind = "array"
    /\ Len(FileCatalog[lastEvent.files[1]].value) = 2
    /\ FileCatalog[lastEvent.files[2]].kind = "object"
    /\ Len(prData) = 3

\* the joined promise of load l settles in this step
LoadSettles(l) == loads[l].settled = "no" /\ loads'[l].settled = "yes"

\* every file of load l was read, and the step replaced the store by the
\* load's records, showed the results and no notification
SucceededWholesale(l) ==
    /\ \A i \in 1..Len(lastEvent'.files) : lastEvent'.files[i] # 0
    /\ prData' = ConcatFiles(l, lastEvent'.files, Len(lastEvent'.files))
    /\ Len(filteredPrData') = Len(prData')
    /\ SeqToSet(filteredPrData') = SeqToSet(prData')
    /\ errorMessages' = errorMessages
    /\ analysisResults' = "block"
    /\ loading' = FALSE

\* the step showed the notification and left the store and the page's
\* results alone
RejectedWholesale ==
    /\ errorMessages' = Append(errorMessages, 0)
    /\ prData' = prData
    /\ filteredPrData' = filteredPrData
    /\ stats' = stats
    /\ charts' = charts
    /\ prList' = prList

\* C5: every load ends in one of two outcomes, succeeded wholesale (store
\* replaced by the load's records, analysis shown, no error notification)
\* or rejected wholesale (error notification shown, store unchanged), and
\* never with the store replaced and the notification shown as well
C5_LoadEndsWholesale ==
    [][\A l \in LoadIds :
          LoadSettles(l) => SucceededWholesale(l) \/ RejectedWholesale]_vars

\* C6: each card on display carries an index that is a position of the
\* current full dataset, and that position holds the very record the card
\* was rendered from
C6_CardIndexHoldsItsRecord ==
    analysisResults = "block" =>
        \A k \in 1..Len(prList) :
            /\ prList[k].originalIndex >= 0
            /\ prList[k].originalIndex < Len(prData)
            /\ prData[prList[k].originalIndex + 1] = prList[k].pr

\* the records of s stand in the order they have in the dataset
InDatasetOrder(s, data) ==
    \A i, j \in 1..Len(s) :
        i < j => /\ FindIndex(data, s[i]) >= 0
                 /\ FindIndex(data, s[i]) < FindIndex(data, s[j])

\* C7: after a successful load and after a handled filter-input change the
\* stored filtered view keeps the relative order of the full dataset, and
\* running the filter again on the same inputs stores the same sequence
C7_FilteredViewKeepsDatasetOrder ==
    /\ lastEvent.kind \in {"fulfilled", "filter"} =>
           InDatasetOrder(filteredPrData, prData)
    /\ lastEvent.kind = "filter" =>
           SortOutcomes(Filtered(prData, prFilter, repoDropdown, startDate,
                                 endDate, failToPassFilter, tz))
               = {filteredPrData}

\* the distinct repository strings of the records, a record without repo
\* or with an empty one contributing nothing
ClaimedRepoCount(data) ==
    Cardinality({data[i].repo : i \in 1..Len(data)} \ {None, Some(<<>>)})

\* C8: after a successful load of a non-empty dataset the statistics are
\* the number of records, the number of fail-to-pass records and the number
\* of distinct repository strings among the fail-to-pass records, a record
\* without repo contributing nothing to the distinct count
C8_StatsCountPresentReposOnly ==
    (lastEvent.kind = "fulfilled" /\ prData # <<>>) =>
        /\ stats.totalPRs = Len(prData)
        /\ stats.failToPassPRs = Len(FailToPassOf(prData))
        /\ stats.failToPassRepos = ClaimedRepoCount(FailToPassOf(prData))

\* C9: the load of an empty array, first or after a non-empty load, ends
\* without an error notification, generates no chart and no list, and
\* leaves the four statistics at zero
C9_EmptyLoadLeavesStatsZero ==
    [][\A l \in LoadIds :
          (LoadSettles(l) /\ lastEvent'.kind # "rejected" /\ prData' = <<>>)
              => /\ errorMessages' = errorMessages
                 /\ charts' = charts
                 /\ prList' = prList
                 /\ stats' = ZeroStats]_vars

\* the class and the text of one line as the specification words the
\* rules: the metadata prefixes first, then '+', then '-', then context
ClaimedLine(line) ==
    IF \/ StartsWith(line, <<"@", "@">>)
       \/ StartsWith(line, <<"-", "-", "-">>)
       \/ StartsWith(line, <<"+", "+", "+">>)
    THEN [lineClass |-> "diff-meta", codeLine |-> line]
    ELSE IF StartsWith(line, <<"+">>)
    THEN [lineClass |-> "diff-add", codeLine |-> Substring1(line)]
    ELSE IF StartsWith(line, <<"-">>)
    THEN [lineClass |-> "diff-remove", codeLine |-> Substring1(line)]
    ELSE [lineClass |-> "",
          codeLine |-> IF StartsWith(line, <<" ">>) THEN Substring1(line)
                       ELSE line]

\* C10: formatAndHighlightPatch yields one line per input line, in order:
\* a line starting with '@@', '---' or '+++' in the metadata style with
\* its text as it is, any other '+' line in the addition style and any
\* other '-' line in the removal style with that one character stripped, a
\* remaining line without style and with one leading space stripped, and a
\* non-breaking space for a line left empty
C10_LinesClassifiedMetadataFirst ==
    (patchHtml # None /\ patchContent # <<>>) =>
        LET lines == SplitLines(EscapeHtml(patchContent))
            spans == patchHtml[1].spans
        IN /\ Len(spans) = Len(lines)
           /\ \A k \in 1..Len(lines) :
                 LET c == ClaimedLine(lines[k])
                 IN /\ spans[k].lineClass = c.lineClass
                    /\ spans[k].text = IF c.codeLine = <<>> THEN Nbsp
                                       ELSE c.codeLine

\* C11: no operation of the pipeline (the analysis a load runs, a filter
\* change with the list rendering it triggers) ends in an exception raised
\* for an absent field of a record or of a file change: when one ended in
\* an exception, no record it rendered lacks the field the renderer reads
C11_NoOperationThrowsOnAbsentField ==
    /\ lastEvent.kind = "threw" =>
           ~\E i \in 1..Len(filteredPrData) : CardThrows(filteredPrData[i])
    /\ lastEvent.kind = "filterThrew" =>
           ~\E i \in 1..Len(filteredPrData) : CardThrows(filteredPrData[i])

\* a filter-input event was handled in this step
FilterStep == inputs' # inputs

\* a load's then handler ran the analysis on a non-empty dataset in this
\* step
AnalysisStep ==
    \E l \in LoadIds :
        LoadSettles(l) /\ lastEvent'.kind # "rejected" /\ prData' # <<>>

\* C12: the four builders are given the fail-to-pass records of the full
\* dataset whatever the filter inputs are; a filter-input change leaves
\* the charts, the statistics and the full dataset as they were; the
\* charts change in an analysis only, and no target ever holds more than
\* one chart
C12_ChartsIndependentOfFilters ==
    [][/\ FilterStep => /\ charts' = charts
                        /\ stats' = stats
                        /\ prData' = prData
       /\ AnalysisStep =>
              \A t \in ChartTargets :
                  charts'[t] = <<ChartData(t, FailToPassOf(prData'), tz)>>
       /\ ~AnalysisStep => charts' = charts
       /\ \A t \in ChartTargets : Len(charts'[t]) <= 1]_vars

\* a filter change has narrowed the list of a dataset loaded by the second
\* load while the charts show its fail-to-pass records, which are some but
\* not all of its records
C12_Witness ==
    /\ lastEvent.kind = "filter"
    /\ Len(filteredPrData) < Len(prData)
    /\ loads[1].phase = "finished"
    /\ loads[1].errors = 0
    /\ prData[1].oid[1] = 2
    /\ FailToPassOf(prData) # <<>>
    /\ FailToPassOf(prData) # prData
    /\ charts["fileDistChart"] = <<FileDistribution(FailToPassOf(prData))>>

\* the length of a record's patch, 0 for an absent one
ClaimedPatchLength(pr) == IF pr.patch = None THEN 0 ELSE Len(pr.patch[1])

\* the changes of a record's file changes summed, an absent number as 0
ClaimedChangeVolume(pr) ==
    IF pr.patch = None THEN 0
    ELSE SumSeq([i \in 1..Len(pr.patch[1]) |->
                   IF pr.patch[1][i].changes = None THEN 0
                   ELSE pr.patch[1][i].changes[1]])

\* the file-count bucket of a record: <=2, 3..5, 6..10, >10
ClaimedFileBucket(pr) ==
    LET n == ClaimedPatchLength(pr)
    IN IF n <= 2 THEN 1 ELSE IF n \in 3..5 THEN 2
       ELSE IF n \in 6..10 THEN 3 ELSE 4

\* the change-volume bucket of a record: <=10, 11..50, 51..100, >100
ClaimedChangeBucket(pr) ==
    LET v == ClaimedChangeVolume(pr)
    IN IF v <= 10 THEN 1 ELSE IF v \in 11..50 THEN 2
       ELSE IF v \in 51..100 THEN 3 ELSE 4

\* the four counts count each record given once, in its bucket: buckets[i]
\* is the bucket of the i-th record given
CountsByBucket(counts, buckets) ==
    /\ Len(counts) = 4
    /\ SumSeq(counts) = Len(buckets)
    /\ \A b \in 1..4 :
          counts[b] = Cardinality({i \in 1..Len(buckets) : buckets[i] = b})

\* C13: for every sequence of records given, the four counts of the
\* file-count histogram sum to its length and so do the four counts of the
\* change-volume histogram, each record counted in the bucket of its patch
\* length (<=2, 3..5, 6..10, >10) and of its summed changes (<=10, 11..50,
\* 51..100, >100), a record with an empty or absent patch in the first of
\* each
C13_HistogramCountsSumToLength ==
    /\ histograms["fileDistChart"] # <<>> =>
           CountsByBucket(histograms["fileDistChart"][1],
               [i \in 1..Len(chartInput) |-> ClaimedFileBucket(chartInput[i])])
    /\ histograms["changesChart"] # <<>> =>
           CountsByBucket(histograms["changesChart"][1],
               [i \in 1..Len(chartInput) |->
                  ClaimedChangeBucket(chartInput[i])])

\* both histograms are drawn for a record without patch and a record of
\* eleven file changes of ten changes each
C13_Witness ==
    /\ Len(chartInput) = 2
    /\ chartInput[1].patch = None
    /\ ClaimedPatchLength(chartInput[2]) = 11
    /\ ClaimedChangeVolume(chartInput[2]) = 110
    /\ histograms["fileDistChart"] = <<<<1, 0, 0, 1>>>>
    /\ histograms["changesChart"] = <<<<1, 0, 0, 1>>>>

\* load l has finished and its then handler ran to its end
LoadSucceeded(l) == loads[l].phase = "finished" /\ loads[l].errors = 0

\* every record of s was parsed by load l
RecordsOfLoad(s, l) == \A i \in 1..Len(s) : s[i].oid[1] = l

\* C14: once two loads that both parsed have completed, the full dataset
\* and the filtered view hold the records of the load requested last,
\* whatever the order in which the reads of the two loads completed
C14_LastRequestedLoadWins ==
    \A l \in LoadIds :
        (l > 1 /\ LoadSucceeded(l - 1) /\ LoadSucceeded(l)
           /\ \A m \in LoadIds : m > l => loads[m].phase = "unused") =>
            /\ RecordsOfLoad(prData, l)
            /\ RecordsOfLoad(filteredPrData, l)

=============================================================================
